---- MODULE Spec2Model ----
(***************************************************************************)
(* The apply pipeline of server/etcdserver/uber_applier.go: uberApplier,   *)
(* its chain of applierV3 wrappers rebuilt by RestoreAlarms, and the       *)
(* dispatch of one committed InternalRaftRequest.                          *)
(***************************************************************************)
EXTENDS Integers, Sequences, FiniteSets, TLC

\* Number of cluster members that can raise an alarm (AlarmRequest.MemberID).
NumMembers == 2
\* Number of consecutive stand-alone RestoreAlarms calls that are followed.
MaxRestores == 2

MemberIDs == 1..NumMembers

\* pb.AlarmType values read by RestoreAlarms.
AlarmTypes == {"NOSPACE", "CORRUPT"}

\* pb.AlarmRequest actions.
AlarmActions == {"GET", "ACTIVATE", "DEACTIVATE"}

\* Request fields of the first switch of dispatch.
ClusterVariants == {"ClusterVersionSet", "ClusterMemberAttrSet", "DowngradeInfoSet"}

\* Request fields of the second switch of dispatch, key-value and lease part.
DataVariants ==
  {"Range", "Put", "DeleteRange", "Txn", "Compaction",
   "LeaseGrant", "LeaseRevoke", "LeaseCheckpoint", "Alarm"}

\* Request fields of the second switch of dispatch, auth part.
AuthVariants ==
  {"Authenticate", "AuthEnable", "AuthDisable", "AuthStatus",
   "AuthUserAdd", "AuthUserDelete", "AuthUserChangePassword",
   "AuthUserGrantRole", "AuthUserGet", "AuthUserRevokeRole",
   "AuthRoleAdd", "AuthRoleGrantPermission", "AuthRoleGet",
   "AuthRoleRevokePermission", "AuthRoleDelete", "AuthUserList",
   "AuthRoleList"}

\* A request with no field set.
NoVariant == "none"

Variants == ClusterVariants \cup DataVariants \cup AuthVariants \cup {NoVariant}

\* A pb.InternalRaftRequest with the one field v set (Alarm apart).
Request(v) == [variant |-> v, Action |-> "GET", MemberID |-> 0, Alarm |-> "NONE"]

\* A pb.InternalRaftRequest carrying a pb.AlarmRequest.
AlarmRequests ==
  {[variant |-> "Alarm", Action |-> "GET", MemberID |-> 0, Alarm |-> "NONE"]}
  \cup {[variant |-> "Alarm", Action |-> act, MemberID |-> m, Alarm |-> t] :
          act \in {"ACTIVATE", "DEACTIVATE"}, m \in MemberIDs, t \in AlarmTypes}

Requests == {Request(v) : v \in Variants \ {"Alarm"}} \cup AlarmRequests

\* Errors an applier can return; "nil" is no error.
ErrNil == "nil"
ErrCompacted == "ErrCompacted"
ErrCorrupt == "ErrCorrupt"
ErrNoSpace == "ErrNoSpace"
ErrQuota == "ErrQuotaExceeded"
ErrPermissionDenied == "ErrPermissionDenied"
ErrBackend == "ErrBackend"

\* No response payload.
RespNil == "nil"

(***************************************************************************)
(* The applierV3 chain: a sequence of wrapper names, outermost first,      *)
(* ending in the backend.                                                  *)
(***************************************************************************)
newApplierV3Backend == <<"Backend">>

newQuotaApplierV3(inner) == <<"Quota">> \o inner

newAuthApplierV3(inner) == <<"Auth">> \o inner

newApplierV3Capped(inner) == <<"Capped">> \o inner

newApplierV3Corrupt(inner) == <<"Corrupt">> \o inner

newApplierV3 == newAuthApplierV3(newQuotaApplierV3(newApplierV3Backend))

\* alarmStore.Get(t): the active alarms of type t, one per member.
AlarmStoreGet(store, t) == {al \in store : al.Alarm = t}

AllAlarms == [MemberID : MemberIDs, Alarm : AlarmTypes]

\* RestoreAlarms without the reset to the base chain.
RestoreAlarmsNoReset(store, cur, base) ==
  LET noSpaceAlarms == Cardinality(AlarmStoreGet(store, "NOSPACE")) > 0
      corruptAlarms == Cardinality(AlarmStoreGet(store, "CORRUPT")) > 0
      c1 == IF noSpaceAlarms THEN newApplierV3Capped(cur) ELSE cur
  IN  IF corruptAlarms THEN newApplierV3Corrupt(c1) ELSE c1

\* RestoreAlarms with the two wrappers applied in the opposite order.
RestoreAlarmsSwapped(store, cur, base) ==
  LET noSpaceAlarms == Cardinality(AlarmStoreGet(store, "NOSPACE")) > 0
      corruptAlarms == Cardinality(AlarmStoreGet(store, "CORRUPT")) > 0
      c1 == IF corruptAlarms THEN newApplierV3Corrupt(base) ELSE base
  IN  IF noSpaceAlarms THEN newApplierV3Capped(c1) ELSE c1

\* RestoreAlarms without the NOSPACE wrapper.
RestoreAlarmsNoCapped(store, cur, base) ==
  LET corruptAlarms == Cardinality(AlarmStoreGet(store, "CORRUPT")) > 0
  IN  IF corruptAlarms THEN newApplierV3Corrupt(base) ELSE base

\* RestoreAlarms without the CORRUPT wrapper.
RestoreAlarmsNoCorrupt(store, cur, base) ==
  LET noSpaceAlarms == Cardinality(AlarmStoreGet(store, "NOSPACE")) > 0
  IN  IF noSpaceAlarms THEN newApplierV3Capped(base) ELSE base

\* uberApplier.RestoreAlarms: the new value of a.applyV3. cur is a.applyV3
\* on entry, overwritten by the base chain before any wrapper is added.
RestoreAlarms(store, cur, base) ==
  LET noSpaceAlarms == Cardinality(AlarmStoreGet(store, "NOSPACE")) > 0
      corruptAlarms == Cardinality(AlarmStoreGet(store, "CORRUPT")) > 0
      c0 == base
      c1 == IF noSpaceAlarms THEN newApplierV3Capped(c0) ELSE c0
  IN  IF corruptAlarms THEN newApplierV3Corrupt(c1) ELSE c1

(***************************************************************************)
(* The method surface of the chain.  What each wrapper decides is not in   *)
(* uber_applier.go; it follows the design description: a wrapper either    *)
(* rejects with its own error without calling the inner applier, or        *)
(* delegates to it.                                                        *)
(***************************************************************************)

\* Outcomes of the collaborators for one call: whether authorization and
\* quota allow it, the error of the backend, whether a failing alarm call
\* still changed the alarm store, and whether the call took longer than
\* warningApplyDuration.
Envs ==
  [authOK : BOOLEAN, quotaOK : BOOLEAN,
   berr : {ErrNil, ErrCompacted, ErrBackend},
   partial : BOOLEAN, slow : BOOLEAN]

\* The applierV3 method dispatch calls for a request field.
ChainMethod(v) ==
  CASE v = "Range" -> "Range"
    [] v = "Put" -> "Put"
    [] v = "DeleteRange" -> "DeleteRange"
    [] v = "Txn" -> "Txn"
    [] v = "Compaction" -> "Compaction"
    [] v = "LeaseGrant" -> "LeaseGrant"
    [] v = "LeaseRevoke" -> "LeaseRevoke"
    [] v = "LeaseCheckpoint" -> "LeaseCheckpoint"
    [] v = "Alarm" -> "Alarm"
    [] v = "Authenticate" -> "Authenticate"
    [] v = "AuthEnable" -> "AuthEnable"
    [] v = "AuthDisable" -> "AuthDisable"
    [] v = "AuthStatus" -> "AuthStatus"
    [] v = "AuthUserAdd" -> "UserAdd"
    [] v = "AuthUserDelete" -> "UserDelete"
    [] v = "AuthUserChangePassword" -> "UserChangePassword"
    [] v = "AuthUserGrantRole" -> "UserGrantRole"
    [] v = "AuthUserGet" -> "UserGet"
    [] v = "AuthUserRevokeRole" -> "UserRevokeRole"
    [] v = "AuthRoleAdd" -> "RoleAdd"
    [] v = "AuthRoleGrantPermission" -> "RoleGrantPermission"
    [] v = "AuthRoleGet" -> "RoleGet"
    [] v = "AuthRoleRevokePermission" -> "RoleRevokePermission"
    [] v = "AuthRoleDelete" -> "RoleDelete"
    [] v = "AuthUserList" -> "UserList"
    [] v = "AuthRoleList" -> "RoleList"

\* The label dispatch gives the metric for a request field; the AuthStatus
\* case assigns none and keeps the initial "unknown".
OpName(v) ==
  CASE v = "ClusterVersionSet" -> "ClusterVersionSet"
    [] v = "ClusterMemberAttrSet" -> "ClusterMemberAttrSet"
    [] v = "DowngradeInfoSet" -> "DowngradeInfoSet"
    [] v = "Range" -> "Range"
    [] v = "Put" -> "Put"
    [] v = "DeleteRange" -> "DeleteRange"
    [] v = "Txn" -> "Txn"
    [] v = "Compaction" -> "Compaction"
    [] v = "LeaseGrant" -> "LeaseGrant"
    [] v = "LeaseRevoke" -> "LeaseRevoke"
    [] v = "LeaseCheckpoint" -> "LeaseCheckpoint"
    [] v = "Alarm" -> "Alarm"
    [] v = "Authenticate" -> "Authenticate"
    [] v = "AuthEnable" -> "AuthEnable"
    [] v = "AuthDisable" -> "AuthDisable"
    [] v = "AuthStatus" -> "unknown"
    [] v = "AuthUserAdd" -> "AuthUserAdd"
    [] v = "AuthUserDelete" -> "AuthUserDelete"
    [] v = "AuthUserChangePassword" -> "AuthUserChangePassword"
    [] v = "AuthUserGrantRole" -> "AuthUserGrantRole"
    [] v = "AuthUserGet" -> "AuthUserGet"
    [] v = "AuthUserRevokeRole" -> "AuthUserRevokeRole"
    [] v = "AuthRoleAdd" -> "AuthRoleAdd"
    [] v = "AuthRoleGrantPermission" -> "AuthRoleGrantPermission"
    [] v = "AuthRoleGet" -> "AuthRoleGet"
    [] v = "AuthRoleRevokePermission" -> "AuthRoleRevokePermission"
    [] v = "AuthRoleDelete" -> "AuthRoleDelete"
    [] v = "AuthUserList" -> "AuthUserList"
    [] v = "AuthRoleList" -> "AuthRoleList"
    [] OTHER -> "unknown"

\* Corruption lockdown: every data-plane command but the alarm command.
CorruptRejects == DataVariants \ {"Alarm"}

\* Space lockdown: the mutating data-plane commands; Range is read-only and
\* the alarm command is what lifts the lockdown.
CappedRejects == DataVariants \ {"Range", "Alarm"}

\* Commands the authorization wrapper checks a permission for.
AuthChecked == (DataVariants \cup AuthVariants) \ {"Alarm"}

\* Commands the quota wrapper accounts for.
QuotaChecked == {"Put", "Txn", "LeaseGrant"}

\* What one wrapper does with a call: the error it rejects with, or ErrNil
\* when it delegates to the applier it wraps.
Rejection(d, r, env) ==
  CASE d = "Corrupt" /\ r.variant \in CorruptRejects -> ErrCorrupt
    [] d = "Capped" /\ r.variant \in CappedRejects -> ErrNoSpace
    [] d = "Auth" /\ r.variant \in AuthChecked /\ ~env.authOK -> ErrPermissionDenied
    [] d = "Quota" /\ r.variant \in QuotaChecked /\ ~env.quotaOK -> ErrQuota
    [] OTHER -> ErrNil

\* The alarm store after the backend's Alarm method.
AlarmStoreApply(store, r) ==
  LET al == [MemberID |-> r.MemberID, Alarm |-> r.Alarm]
  IN  CASE r.Action = "ACTIVATE" -> store \cup {al}
        [] r.Action = "DEACTIVATE" -> store \ {al}
        [] OTHER -> store

\* The backend executor's method for r.
BackendCall(r, env, store) ==
  [resp  |-> IF env.berr = ErrNil THEN r.variant ELSE RespNil,
   err   |-> env.berr,
   trace |-> r.variant \in {"Put", "Txn", "Compaction"},
   physc |-> r.variant = "Compaction" /\ env.berr = ErrNil,
   calls |-> << <<"Backend", ChainMethod(r.variant)>> >>,
   store |-> IF r.variant = "Alarm" /\ (env.berr = ErrNil \/ env.partial)
             THEN AlarmStoreApply(store, r) ELSE store]

\* chain.M(r): the call travels inwards until a wrapper rejects it or the
\* backend executes it; calls lists the appliers whose method ran.
RECURSIVE ChainCall(_, _, _, _)
ChainCall(chain, r, env, store) ==
  IF Head(chain) = "Backend" THEN BackendCall(r, env, store)
  ELSE IF Rejection(Head(chain), r, env) # ErrNil
    THEN [resp |-> RespNil, err |-> Rejection(Head(chain), r, env),
          trace |-> FALSE, physc |-> FALSE,
          calls |-> << <<Head(chain), ChainMethod(r.variant)>> >>, store |-> store]
  ELSE [ChainCall(Tail(chain), r, env, store)
          EXCEPT !.calls = << <<Head(chain), ChainMethod(r.variant)>> >> \o @]

(***************************************************************************)
(* uberApplier.  a is the record of its fields alarmStore, applyV3 and     *)
(* applyV3base; every operator returns what the call returns together      *)
(* with the fields it leaves behind.                                       *)
(***************************************************************************)

\* The applyResult dispatch starts from: ar := &applyResult{}.
EmptyResult == [resp |-> RespNil, err |-> ErrNil, trace |-> FALSE, physc |-> FALSE]

\* The second half of uberApplier.Alarm with RestoreAlarms called only when
\* the chain returned no error.
AlarmReturnOnSuccess(a, r, c) ==
  [resp |-> c.resp, err |-> c.err, calls |-> c.calls, store |-> c.store,
   restored |-> (r.Action = "ACTIVATE" \/ r.Action = "DEACTIVATE") /\ c.err = ErrNil,
   applyV3 |-> IF (r.Action = "ACTIVATE" \/ r.Action = "DEACTIVATE") /\ c.err = ErrNil
               THEN RestoreAlarms(c.store, a.applyV3, a.applyV3base)
               ELSE a.applyV3]

\* The second half of uberApplier.Alarm with RestoreAlarms called for every
\* action, the query included.
AlarmReturnAlways(a, r, c) ==
  [resp |-> c.resp, err |-> c.err, calls |-> c.calls, store |-> c.store,
   restored |-> TRUE,
   applyV3 |-> RestoreAlarms(c.store, a.applyV3, a.applyV3base)]

\* The second half of uberApplier.Alarm with RestoreAlarms called for an
\* activate only.
AlarmReturnActivateOnly(a, r, c) ==
  [resp |-> c.resp, err |-> c.err, calls |-> c.calls, store |-> c.store,
   restored |-> r.Action = "ACTIVATE",
   applyV3 |-> IF r.Action = "ACTIVATE"
               THEN RestoreAlarms(c.store, a.applyV3, a.applyV3base)
               ELSE a.applyV3]

\* The second half of uberApplier.Alarm returning no error once
\* RestoreAlarms has run.
AlarmReturnDropsErr(a, r, c) ==
  [resp |-> c.resp,
   err |-> IF r.Action = "ACTIVATE" \/ r.Action = "DEACTIVATE" THEN ErrNil ELSE c.err,
   calls |-> c.calls, store |-> c.store,
   restored |-> r.Action = "ACTIVATE" \/ r.Action = "DEACTIVATE",
   applyV3 |-> IF r.Action = "ACTIVATE" \/ r.Action = "DEACTIVATE"
               THEN RestoreAlarms(c.store, a.applyV3, a.applyV3base)
               ELSE a.applyV3]

\* The second half of uberApplier.Alarm, c being what a.applyV3.Alarm(ar)
\* returned and left in the alarm store: RestoreAlarms for an activate or
\* deactivate action, whatever the chain returned, then return resp, err.
\* restored tells whether RestoreAlarms was called.
AlarmReturn(a, r, c) ==
  [resp |-> c.resp, err |-> c.err, calls |-> c.calls, store |-> c.store,
   restored |-> r.Action = "ACTIVATE" \/ r.Action = "DEACTIVATE",
   applyV3 |-> IF r.Action = "ACTIVATE" \/ r.Action = "DEACTIVATE"
               THEN RestoreAlarms(c.store, a.applyV3, a.applyV3base)
               ELSE a.applyV3]

\* uberApplier.Alarm: the chain's Alarm method first, then the rest.
Alarm(a, r, env) == AlarmReturn(a, r, ChainCall(a.applyV3, r, env, a.alarmStore))

\* First switch of dispatch returning nil instead of ar.
dispatchInternalReturnsNil(a, r, shouldApplyV3) ==
  [ret |-> "nil", ar |-> EmptyResult, op |-> OpName(r.variant),
   internal |-> << <<r.variant, shouldApplyV3>> >>, calls |-> <<>>,
   restored |-> FALSE, store |-> a.alarmStore, applyV3 |-> a.applyV3]

\* First switch of dispatch: the method of applyV3Internal for the request
\* field, called with shouldApplyV3 as an argument; dispatch returns ar.
dispatchInternal(a, r, shouldApplyV3) ==
  [ret |-> "ar", ar |-> EmptyResult, op |-> OpName(r.variant),
   internal |-> << <<r.variant, shouldApplyV3>> >>, calls |-> <<>>,
   restored |-> FALSE, store |-> a.alarmStore, applyV3 |-> a.applyV3]

\* if !shouldApplyV3 { return nil }
dispatchSkipped(a) ==
  [ret |-> "nil", ar |-> EmptyResult, op |-> "unknown",
   internal |-> <<>>, calls |-> <<>>,
   restored |-> FALSE, store |-> a.alarmStore, applyV3 |-> a.applyV3]

\* default: a.lg.Panic(...)
dispatchPanic(a) ==
  [ret |-> "panic", ar |-> EmptyResult, op |-> "unknown",
   internal |-> <<>>, calls |-> <<>>,
   restored |-> FALSE, store |-> a.alarmStore, applyV3 |-> a.applyV3]

\* case r.Alarm != nil: ar.resp, ar.err = a.Alarm(r.Alarm), c being what
\* a.Alarm returned and left behind.
dispatchAlarm(r, c) ==
  [ret |-> "ar",
   ar |-> [resp |-> c.resp, err |-> c.err, trace |-> FALSE, physc |-> FALSE],
   op |-> OpName(r.variant), internal |-> <<>>, calls |-> c.calls,
   restored |-> c.restored, store |-> c.store, applyV3 |-> c.applyV3]

\* The other cases of the second switch: ar takes what the method of
\* a.applyV3 returned (c); trace is kept for Put, Txn and Compaction and
\* physc for Compaction.
dispatchMethod(a, r, c) ==
  [ret |-> "ar",
   ar |-> [resp |-> c.resp, err |-> c.err,
           trace |-> c.trace /\ r.variant \in {"Put", "Txn", "Compaction"},
           physc |-> c.physc /\ r.variant = "Compaction"],
   op |-> OpName(r.variant), internal |-> <<>>, calls |-> c.calls,
   restored |-> FALSE, store |-> c.store, applyV3 |-> a.applyV3]

\* Second switch of dispatch for a request field it knows.
dispatchV3(a, r, env) ==
  IF r.variant = "Alarm"
  THEN dispatchAlarm(r, Alarm(a, r, env))
  ELSE dispatchMethod(a, r, ChainCall(a.applyV3, r, env, a.alarmStore))

\* dispatch with the shouldApplyV3 test ahead of the first switch.
dispatchBodyGateFirst(a, r, shouldApplyV3, env) ==
  IF ~shouldApplyV3 THEN dispatchSkipped(a)
  ELSE IF r.variant \in ClusterVariants THEN dispatchInternal(a, r, shouldApplyV3)
  ELSE IF r.variant \in DataVariants \cup AuthVariants THEN dispatchV3(a, r, env)
  ELSE dispatchPanic(a)

\* dispatch without the shouldApplyV3 test.
dispatchBodyNoGate(a, r, shouldApplyV3, env) ==
  IF r.variant \in ClusterVariants THEN dispatchInternal(a, r, shouldApplyV3)
  ELSE IF r.variant \in DataVariants \cup AuthVariants THEN dispatchV3(a, r, env)
  ELSE dispatchPanic(a)

\* dispatch with a default case that returns ar instead of panicking.
dispatchBodyNoPanic(a, r, shouldApplyV3, env) ==
  IF r.variant \in ClusterVariants THEN dispatchInternal(a, r, shouldApplyV3)
  ELSE IF ~shouldApplyV3 THEN dispatchSkipped(a)
  ELSE IF r.variant \in DataVariants \cup AuthVariants THEN dispatchV3(a, r, env)
  ELSE [dispatchPanic(a) EXCEPT !.ret = "ar"]

\* The body of dispatch: first switch, shouldApplyV3 test, second switch.
dispatchBody(a, r, shouldApplyV3, env) ==
  IF r.variant \in ClusterVariants THEN dispatchInternal(a, r, shouldApplyV3)
  ELSE IF ~shouldApplyV3 THEN dispatchSkipped(a)
  ELSE IF r.variant \in DataVariants \cup AuthVariants THEN dispatchV3(a, r, env)
  ELSE dispatchPanic(a)

\* The success label with ErrCompacted counted as a failure.
SuccessStrict(err) == err = ErrNil

\* success := ar.err == nil || ar.err == mvcc.ErrCompacted
Success(err) == err = ErrNil \/ err = ErrCompacted

\* The deferred function with the failed-request warning emitted only for a
\* request that was also slow.
dispatchDeferredFailedIfSlow(b, env) ==
  [ret |-> b.ret, ar |-> b.ar, op |-> b.op, success |-> Success(b.ar.err),
   observed |-> TRUE, slowWarn |-> env.slow,
   failedWarn |-> env.slow /\ ~Success(b.ar.err),
   internal |-> b.internal, calls |-> b.calls,
   restored |-> b.restored, store |-> b.store, applyV3 |-> b.applyV3]

\* The deferred function of dispatch, b being what the body left; it also
\* runs when the body panics: the metric with op and success, the
\* slow-request warning, and the failed-request warning when success is false.
dispatchDeferred(b, env) ==
  [ret |-> b.ret, ar |-> b.ar, op |-> b.op, success |-> Success(b.ar.err),
   observed |-> TRUE, slowWarn |-> env.slow, failedWarn |-> ~Success(b.ar.err),
   internal |-> b.internal, calls |-> b.calls,
   restored |-> b.restored, store |-> b.store, applyV3 |-> b.applyV3]

\* dispatch: the body, then the deferred function.
dispatch(a, r, shouldApplyV3, env) ==
  dispatchDeferred(dispatchBody(a, r, shouldApplyV3, env), env)

\* applierV3.WrapApply: every wrapper hands the request to the applier it
\* wraps and the backend calls applyFunc.
RECURSIVE WrapApply(_, _, _, _, _)
WrapApply(chain, a, r, shouldApplyV3, env) ==
  IF Head(chain) = "Backend" THEN dispatch(a, r, shouldApplyV3, env)
  ELSE WrapApply(Tail(chain), a, r, shouldApplyV3, env)

\* uberApplier.Apply
Apply(a, r, shouldApplyV3, env) == WrapApply(a.applyV3, a, r, shouldApplyV3, env)

\* newUberApplier: both chains are the base chain, then RestoreAlarms.
newUberApplier(store) ==
  LET applyV3base_ == newApplierV3
  IN  [alarmStore |-> store,
       applyV3 |-> RestoreAlarms(store, applyV3base_, applyV3base_),
       applyV3base |-> applyV3base_]

(***************************************************************************)
(* The state machine: one uberApplier on the single apply path.            *)
(***************************************************************************)
VARIABLES
  alarmStore,    \* the alarms held by a.alarmStore
  applyV3,       \* a.applyV3, the chain that takes the current alarms into account
  applyV3base,   \* a.applyV3base, the chain RestoreAlarms wraps
  aborted,       \* the process panicked in dispatch
  last,          \* the last call, what it returned and what it emitted
  noSpaceArmed,  \* an activate of NOSPACE succeeded and no deactivate of NOSPACE was applied since
  corruptArmed,  \* an activate of CORRUPT succeeded and no deactivate of CORRUPT was applied since
  corruptEver,   \* an activate of CORRUPT succeeded at some point
  restorePc      \* where a call of RestoreAlarms taken statement by statement stands

vars == <<alarmStore, applyV3, applyV3base, aborted, last,
          noSpaceArmed, corruptArmed, corruptEver, restorePc>>

\* No call of RestoreAlarms is under way; noSpaceAlarms and corruptAlarms are
\* its two locals.
RestoreIdle == [at |-> "idle", noSpaceAlarms |-> FALSE, corruptAlarms |-> FALSE]

\* The commands that read or compact at a revision, whose backend method
\* can return mvcc.ErrCompacted.
CompactedVariants == {"Range", "Txn", "Compaction"}

\* The uberApplier as the record the operators take.
Self == [alarmStore |-> alarmStore, applyV3 |-> applyV3, applyV3base |-> applyV3base]

\* The collaborators' outcomes that can matter to request r: a wrapper that
\* is not consulted and a backend that is not reached have no outcome.
EnvsFor(r, shouldApplyV3) ==
  LET usesChain == shouldApplyV3 /\ r.variant \in DataVariants \cup AuthVariants
  IN  {e \in Envs :
         /\ (~usesChain => e.berr = ErrNil)
         /\ (r.variant \notin CompactedVariants => e.berr # ErrCompacted)
         /\ (~(usesChain /\ r.variant \in AuthChecked) => e.authOK)
         /\ (~(usesChain /\ r.variant \in QuotaChecked) => e.quotaOK)
         /\ (~(usesChain /\ r.variant = "Alarm" /\ r.Action # "GET"
               /\ e.berr # ErrNil) => ~e.partial)}

NoRequest == Request(NoVariant)

NoEnv == [authOK |-> TRUE, quotaOK |-> TRUE, berr |-> ErrNil,
          partial |-> FALSE, slow |-> FALSE]

\* The record of a call that is no Apply: construction or RestoreAlarms.
NoApply(kind, n, preStore, preChain) ==
  [kind |-> kind, n |-> n, r |-> NoRequest, gate |-> FALSE, env |-> NoEnv,
   ret |-> "none", ar |-> EmptyResult, op |-> "unknown", success |-> TRUE,
   observed |-> FALSE, slowWarn |-> FALSE, failedWarn |-> FALSE,
   internal |-> <<>>, calls |-> <<>>, restored |-> kind # "Idle",
   preStore |-> preStore, preChain |-> preChain,
   preNoSpaceArmed |-> noSpaceArmed, preCorruptArmed |-> corruptArmed,
   preCorruptEver |-> corruptEver]

\* The state after newUberApplier, for every content of the alarm store
\* the server starts with.
Init ==
  \E store \in SUBSET AllAlarms :
    LET ua == newUberApplier(store)
    IN  /\ alarmStore = ua.alarmStore
        /\ applyV3 = ua.applyV3
        /\ applyV3base = ua.applyV3base
        /\ aborted = FALSE
        /\ noSpaceArmed = FALSE
        /\ corruptArmed = FALSE
        /\ corruptEver = FALSE
        /\ restorePc = RestoreIdle
        /\ last = NoApply("New", 0, store, ua.applyV3base)

\* An alarm request of the given action and type went through the chain
\* (out is what Apply returned and left behind).
AlarmApplied(r, shouldApplyV3, out, action, t) ==
  /\ shouldApplyV3 /\ out.ret = "ar"
  /\ r.variant = "Alarm" /\ r.Action = action /\ r.Alarm = t

\* The state Apply(r, shouldApplyV3) leaves, out being what it returned and
\* left behind: the fields of the uberApplier, the record of the call, and
\* the history of the alarm requests applied so far.
Returned(r, shouldApplyV3, env, out) ==
  /\ alarmStore' = out.store
  /\ applyV3' = out.applyV3
  /\ applyV3base' = applyV3base
  /\ aborted' = (out.ret = "panic")
  /\ last' = [kind |-> "Apply", n |-> 0, r |-> r, gate |-> shouldApplyV3,
              env |-> env, ret |-> out.ret, ar |-> out.ar, op |-> out.op,
              success |-> out.success, observed |-> out.observed,
              slowWarn |-> out.slowWarn, failedWarn |-> out.failedWarn,
              internal |-> out.internal, calls |-> out.calls,
              restored |-> out.restored,
              preStore |-> alarmStore, preChain |-> applyV3,
              preNoSpaceArmed |-> noSpaceArmed, preCorruptArmed |-> corruptArmed,
              preCorruptEver |-> corruptEver]
  /\ noSpaceArmed' =
       IF AlarmApplied(r, shouldApplyV3, out, "ACTIVATE", "NOSPACE") /\ out.ar.err = ErrNil
       THEN TRUE
       ELSE IF AlarmApplied(r, shouldApplyV3, out, "DEACTIVATE", "NOSPACE") THEN FALSE
       ELSE noSpaceArmed
  /\ corruptArmed' =
       IF AlarmApplied(r, shouldApplyV3, out, "ACTIVATE", "CORRUPT") /\ out.ar.err = ErrNil
       THEN TRUE
       ELSE IF AlarmApplied(r, shouldApplyV3, out, "DEACTIVATE", "CORRUPT") THEN FALSE
       ELSE corruptArmed
  /\ corruptEver' =
       (corruptEver \/ (AlarmApplied(r, shouldApplyV3, out, "ACTIVATE", "CORRUPT")
                        /\ out.ar.err = ErrNil))

\* One call of Apply on the apply path, made once the outcome of the call
\* before it has been taken.
ApplyStep ==
  /\ ~aborted
  /\ last.kind # "Apply"
  /\ \E r \in Requests, shouldApplyV3 \in BOOLEAN :
       \E env \in EnvsFor(r, shouldApplyV3) :
         Returned(r, shouldApplyV3, env, Apply(Self, r, shouldApplyV3, env))
  /\ UNCHANGED restorePc

\* The caller takes the outcome of the last Apply; the request is discarded.
TakeOutcome ==
  /\ ~aborted
  /\ last.kind = "Apply"
  /\ last' = NoApply("Idle", 0, alarmStore, applyV3)
  /\ UNCHANGED <<alarmStore, applyV3, applyV3base, aborted,
                 noSpaceArmed, corruptArmed, corruptEver, restorePc>>

\* One call of RestoreAlarms from outside Apply.
RestoreAlarmsStep ==
  /\ ~aborted
  /\ last.kind # "Apply"
  /\ (last.kind = "RestoreAlarms" => last.n < MaxRestores)
  /\ applyV3' = RestoreAlarms(alarmStore, applyV3, applyV3base)
  /\ last' = NoApply("RestoreAlarms",
                     IF last.kind = "RestoreAlarms" THEN last.n + 1 ELSE 1,
                     alarmStore, applyV3)
  /\ UNCHANGED <<alarmStore, applyV3base, aborted,
                 noSpaceArmed, corruptArmed, corruptEver, restorePc>>

Next == ApplyStep \/ TakeOutcome \/ RestoreAlarmsStep

Spec == Init /\ [][Next]_vars

(***************************************************************************)
(* The same uberApplier with RestoreAlarms taken statement by statement,   *)
(* so that every value the field a.applyV3 holds is a state.               *)
(***************************************************************************)

\* Apply(r, shouldApplyV3) reaches RestoreAlarms through uberApplier.Alarm.
RestoresChain(r, shouldApplyV3) ==
  /\ shouldApplyV3
  /\ r.variant = "Alarm"
  /\ r.Action \in {"ACTIVATE", "DEACTIVATE"}

\* What Apply of an alarm request has done when a.applyV3.Alarm has returned
\* and RestoreAlarms has not started: out is what the call returns in the
\* end, and a.applyV3 is still the chain the call found.
AlarmDelegated(a, out) == [out EXCEPT !.applyV3 = a.applyV3]

\* An Apply that does not reach RestoreAlarms, taken as one step.
ApplyOtherStep ==
  /\ ~aborted
  /\ last.kind # "Apply"
  /\ restorePc.at = "idle"
  /\ \E r \in Requests, shouldApplyV3 \in BOOLEAN :
       /\ ~RestoresChain(r, shouldApplyV3)
       /\ \E env \in EnvsFor(r, shouldApplyV3) :
            Returned(r, shouldApplyV3, env, Apply(Self, r, shouldApplyV3, env))
  /\ UNCHANGED restorePc

\* Apply of an alarm activate or deactivate up to the return of
\* a.applyV3.Alarm: the alarm store is updated, RestoreAlarms is next.
AlarmDelegatedStep ==
  /\ ~aborted
  /\ last.kind # "Apply"
  /\ restorePc.at = "idle"
  /\ \E r \in AlarmRequests :
       /\ RestoresChain(r, TRUE)
       /\ \E env \in EnvsFor(r, TRUE) :
            Returned(r, TRUE, env, AlarmDelegated(Self, Apply(Self, r, TRUE, env)))
  /\ restorePc' = [RestoreIdle EXCEPT !.at = "80"]

\* RestoreAlarms, the two reads of the alarm store.
RestoreAlarmsRead ==
  /\ restorePc.at = "80"
  /\ restorePc' = [at |-> "82",
                   noSpaceAlarms |-> AlarmStoreGet(alarmStore, "NOSPACE") # {},
                   corruptAlarms |-> AlarmStoreGet(alarmStore, "CORRUPT") # {}]
  /\ UNCHANGED <<alarmStore, applyV3, applyV3base, aborted, last,
                 noSpaceArmed, corruptArmed, corruptEver>>

\* RestoreAlarms, a.applyV3 = a.applyV3base.
RestoreAlarmsReset ==
  /\ restorePc.at = "82"
  /\ applyV3' = applyV3base
  /\ restorePc' = [restorePc EXCEPT !.at = "83"]
  /\ UNCHANGED <<alarmStore, applyV3base, aborted, last,
                 noSpaceArmed, corruptArmed, corruptEver>>

\* RestoreAlarms, the capped applier put around a.applyV3.
RestoreAlarmsCapped ==
  /\ restorePc.at = "83"
  /\ applyV3' = IF restorePc.noSpaceAlarms THEN newApplierV3Capped(applyV3)
                ELSE applyV3
  /\ restorePc' = [restorePc EXCEPT !.at = "86"]
  /\ UNCHANGED <<alarmStore, applyV3base, aborted, last,
                 noSpaceArmed, corruptArmed, corruptEver>>

\* RestoreAlarms, the corrupt applier put around a.applyV3, and the return.
RestoreAlarmsCorrupt ==
  /\ restorePc.at = "86"
  /\ applyV3' = IF restorePc.corruptAlarms THEN newApplierV3Corrupt(applyV3)
                ELSE applyV3
  /\ restorePc' = RestoreIdle
  /\ UNCHANGED <<alarmStore, applyV3base, aborted, last,
                 noSpaceArmed, corruptArmed, corruptEver>>

\* The caller takes the outcome once Apply has returned.
TakeOutcomeRestored ==
  /\ restorePc.at = "idle"
  /\ TakeOutcome

NextRestore ==
  \/ ApplyOtherStep
  \/ AlarmDelegatedStep
  \/ RestoreAlarmsRead
  \/ RestoreAlarmsReset
  \/ RestoreAlarmsCapped
  \/ RestoreAlarmsCorrupt
  \/ TakeOutcomeRestored

SpecRestore == Init /\ [][NextRestore]_vars

(***************************************************************************)
(* Properties.                                                             *)
(***************************************************************************)

\* The last step was an Apply call.
IsApply == last.kind = "Apply"

\* An alarm of type t is active in the alarm store.
Active(store, t) == \E al \in store : al.Alarm = t

\* The applier named d ran a method during the last call.
Reached(d) == \E i \in 1..Len(last.calls) : last.calls[i][1] = d

BaseChain == <<"Auth", "Quota", "Backend">>

\* C1: a cluster-control command makes Apply call the matching method of the
\* internal applier exactly once, for every shouldApplyV3 and every alarm
\* state; no applier of the chain runs a method and nothing rejects it.
C1_ClusterControlAlwaysExecutes ==
  (IsApply /\ last.r.variant \in ClusterVariants) =>
    /\ last.internal = << <<last.r.variant, last.gate>> >>
    /\ last.calls = <<>>
    /\ last.ret = "ar"
    /\ last.ar.err = ErrNil

C1_Witness ==
  /\ IsApply /\ last.r.variant = "DowngradeInfoSet" /\ ~last.gate
  /\ Active(alarmStore, "NOSPACE") /\ Active(alarmStore, "CORRUPT")
  /\ applyV3[1] = "Corrupt"
  /\ Len(last.internal) = 1

\* C2: a data-plane or auth-plane command applied with shouldApplyV3 false
\* runs no method of the chain, of the backend or of the internal applier,
\* returns neither a response nor an error, and leaves the alarm store and
\* the active chain as they were; an alarm activate or deactivate does not
\* run RestoreAlarms.
C2_GateFalseSkips ==
  (IsApply /\ ~last.gate /\ last.r.variant \in DataVariants \cup AuthVariants) =>
    /\ last.calls = <<>>
    /\ last.internal = <<>>
    /\ last.ret # "panic"
    /\ (last.ret = "ar" => last.ar.resp = RespNil /\ last.ar.err = ErrNil)
    /\ alarmStore = last.preStore
    /\ applyV3 = last.preChain

C2_Witness ==
  /\ IsApply /\ ~last.gate
  /\ last.r.variant = "Alarm" /\ last.r.Action = "ACTIVATE" /\ last.r.Alarm = "NOSPACE"
  /\ ~Active(alarmStore, "NOSPACE")
  /\ applyV3 = BaseChain
  /\ last.ret = "nil"

\* C3 as claimed: with shouldApplyV3 true, from a successful activate of
\* NOSPACE until a deactivate of NOSPACE is applied, every mutating
\* data-plane command returns the space-lockdown error with no response and
\* does not reach the backend, and a Range that the authorization wrapper
\* permits is executed by the backend.
C3_Original ==
  (IsApply /\ last.gate /\ last.preNoSpaceArmed) =>
    /\ last.r.variant \in CappedRejects =>
         /\ last.ar.err = ErrNoSpace
         /\ last.ar.resp = RespNil
         /\ ~Reached("Backend")
    /\ (last.r.variant = "Range" /\ last.env.authOK) => Reached("Backend")

\* C3 amended: the same while no CORRUPT alarm is active, the Range being
\* passed on by the space lockdown and executed by the backend when the
\* authorization wrapper permits it.
C3_SpaceLockdown ==
  (IsApply /\ last.gate /\ last.preNoSpaceArmed /\ ~Active(last.preStore, "CORRUPT")) =>
    /\ last.r.variant \in CappedRejects =>
         /\ last.ar.err = ErrNoSpace
         /\ last.ar.resp = RespNil
         /\ last.calls = << <<"Capped", ChainMethod(last.r.variant)>> >>
    /\ last.r.variant = "Range" =>
         /\ last.calls[1] = <<"Capped", "Range">>
         /\ last.ar.err # ErrNoSpace
         /\ (last.env.authOK => Reached("Backend") /\ last.ar.err = last.env.berr)

C3_Witness ==
  /\ IsApply /\ last.gate /\ last.preNoSpaceArmed
  /\ ~Active(last.preStore, "CORRUPT")
  /\ last.r.variant = "Put"
  /\ last.ar.err = ErrNoSpace
  /\ last.env.authOK /\ last.env.quotaOK

RestoreAlarmsCompleted ==
  \/ last.kind = "New"
  \/ last.kind = "RestoreAlarms"
  \/ /\ IsApply /\ last.gate /\ last.ret = "ar"
     /\ last.r.variant = "Alarm" /\ last.r.Action \in {"ACTIVATE", "DEACTIVATE"}

\* C5: when RestoreAlarms completes the active chain is the composition the
\* alarm store determines: the base chain Auth over Quota over Backend,
\* under Capped when a NOSPACE alarm is active, under Corrupt when a CORRUPT
\* alarm is active, Corrupt outermost when both are; Corrupt is never inside
\* Capped.
C5_ChainComposition ==
  RestoreAlarmsCompleted =>
    /\ applyV3base = <<"Auth", "Quota", "Backend">>
    /\ (~Active(alarmStore, "NOSPACE") /\ ~Active(alarmStore, "CORRUPT"))
         => applyV3 = <<"Auth", "Quota", "Backend">>
    /\ (Active(alarmStore, "NOSPACE") /\ ~Active(alarmStore, "CORRUPT"))
         => applyV3 = <<"Capped", "Auth", "Quota", "Backend">>
    /\ (~Active(alarmStore, "NOSPACE") /\ Active(alarmStore, "CORRUPT"))
         => applyV3 = <<"Corrupt", "Auth", "Quota", "Backend">>
    /\ (Active(alarmStore, "NOSPACE") /\ Active(alarmStore, "CORRUPT"))
         => applyV3 = <<"Corrupt", "Capped", "Auth", "Quota", "Backend">>
    /\ \A i, j \in 1..Len(applyV3) :
         (applyV3[i] = "Capped" /\ applyV3[j] = "Corrupt") => j < i

C5_Witness ==
  /\ IsApply /\ last.gate /\ last.r.variant = "Alarm" /\ last.r.Action = "ACTIVATE"
  /\ last.r.Alarm = "NOSPACE"
  /\ ~Active(last.preStore, "NOSPACE") /\ Active(last.preStore, "CORRUPT")
  /\ last.preChain = <<"Corrupt", "Auth", "Quota", "Backend">>
  /\ applyV3 = <<"Corrupt", "Capped", "Auth", "Quota", "Backend">>

\* The wrappers the alarms of a store call for, outermost first, over the
\* base chain.
ChainOf(store) ==
  (IF Active(store, "CORRUPT") THEN <<"Corrupt">> ELSE <<>>)
  \o (IF Active(store, "NOSPACE") THEN <<"Capped">> ELSE <<>>)
  \o BaseChain

\* C6: after construction and after every Apply that returns, the active
\* chain is the one the current content of the alarm store determines; after
\* an applied activate or deactivate it follows the store as the call left
\* it, whether the chain's Alarm method returned an error or not.
C6_ChainFollowsAlarms ==
  (last.kind \in {"New", "Idle"} \/ (IsApply /\ last.ret # "panic")) =>
    applyV3 = ChainOf(alarmStore)

C6_Witness ==
  /\ IsApply /\ last.gate /\ last.r.variant = "Alarm" /\ last.r.Action = "ACTIVATE"
  /\ last.ar.err # ErrNil
  /\ alarmStore # last.preStore
  /\ applyV3 # last.preChain
  /\ applyV3 = ChainOf(alarmStore)

\* C7: a second RestoreAlarms with the alarm store unchanged leaves the
\* chain the first one built, so every method call is accepted or rejected
\* as after the first.
C7_RestoreAlarmsIdempotent ==
  (last.kind = "RestoreAlarms" /\ last.n >= 2 /\ last.preStore = alarmStore) =>
    /\ applyV3 = last.preChain
    /\ \A r \in Requests : \A env \in EnvsFor(r, TRUE) :
         r.variant \in DataVariants \cup AuthVariants =>
           ChainCall(applyV3, r, env, alarmStore).err
             = ChainCall(last.preChain, r, env, alarmStore).err

C7_Witness ==
  /\ last.kind = "RestoreAlarms" /\ last.n = 2
  /\ Active(alarmStore, "NOSPACE") /\ Active(alarmStore, "CORRUPT")
  /\ applyV3 = last.preChain
  /\ Len(applyV3) = 5

\* C8: a Compaction applied with shouldApplyV3 true for which the chain
\* returns ErrCompacted is observed with the success label true and without
\* the failed-request warning, and the result returned still carries
\* ErrCompacted.
C8_CompactedIsSuccess ==
  (IsApply /\ last.gate /\ last.r.variant = "Compaction"
     /\ Reached("Backend") /\ last.env.berr = ErrCompacted) =>
    /\ last.ret = "ar"
    /\ last.ar.err = ErrCompacted
    /\ last.observed
    /\ last.op = "Compaction"
    /\ last.success
    /\ ~last.failedWarn

C8_Witness ==
  /\ IsApply /\ last.gate /\ last.r.variant = "Compaction"
  /\ last.ar.err = ErrCompacted
  /\ last.success /\ ~last.failedWarn

\* C10 as claimed: a request with no field set makes Apply panic and return
\* nothing, for every shouldApplyV3 and every alarm state.
C10_Original ==
  (IsApply /\ last.r.variant = NoVariant) =>
    /\ last.ret = "panic"
    /\ aborted

\* C10 amended: a request with no field set makes Apply panic and return
\* nothing when shouldApplyV3 is true, in every alarm state; when
\* shouldApplyV3 is false Apply returns nil and the process goes on.
C10_UnknownRequestPanics ==
  (IsApply /\ last.r.variant = NoVariant) =>
    /\ last.gate => (last.ret = "panic" /\ aborted)
    /\ ~last.gate => (last.ret = "nil" /\ ~aborted)
    /\ last.calls = <<>> /\ last.internal = <<>>
    /\ alarmStore = last.preStore /\ applyV3 = last.preChain

C10_Witness ==
  /\ IsApply /\ last.r.variant = NoVariant /\ last.gate
  /\ aborted /\ last.ret = "panic"
  /\ Active(alarmStore, "CORRUPT") /\ Active(alarmStore, "NOSPACE")

\* The request of the last Apply was executed: one of the applier methods
\* was selected for its variant and dispatch returned its result.
Executed ==
  /\ IsApply /\ last.ret = "ar"
  /\ last.r.variant \in ClusterVariants \cup DataVariants \cup AuthVariants

\* C11: every executed request of a recognized variant has its duration
\* metric labelled with the operation name of its own variant, so that no
\* two variants share a label.
C11_MetricLabelledByVariant ==
  Executed => /\ last.observed
              /\ last.op = last.r.variant

\* C12: Apply changes the active chain, and calls RestoreAlarms at all, only
\* for an alarm request of action ACTIVATE or DEACTIVATE applied with
\* shouldApplyV3 true; every other Apply leaves the active chain as it was,
\* and the base chain is the one built at construction in every state.
C12_ChainFrame ==
  /\ applyV3base = BaseChain
  /\ (IsApply /\ ~(/\ last.gate
                   /\ last.r.variant = "Alarm"
                   /\ last.r.Action \in {"ACTIVATE", "DEACTIVATE"})
        => /\ applyV3 = last.preChain
           /\ ~last.restored)

\* C12 witness: an alarm query and a Put, both applied under a lockdown chain
\* that they leave in place.
C12_Witness ==
  /\ IsApply /\ last.gate /\ last.ret = "ar"
  /\ last.r.variant = "Alarm" /\ last.r.Action = "GET"
  /\ last.preChain # BaseChain
  /\ applyV3 = last.preChain
  /\ ~last.restored

\* The errors with which a decorator of the chain rejects a request.
PolicyRejections == {ErrCorrupt, ErrNoSpace, ErrQuota, ErrPermissionDenied}

\* C13: for every Apply that returns, the failed-apply warning is emitted
\* exactly when the outcome carries an error other than ErrCompacted, and
\* exactly then the success label of the metric is false; a rejection by a
\* decorator counts as a failure; the slow-apply warning follows the duration
\* alone.
C13_FailureClassification ==
  (IsApply /\ last.ret # "panic") =>
    /\ last.observed
    /\ last.failedWarn <=> (last.ar.err # ErrNil /\ last.ar.err # ErrCompacted)
    /\ last.success <=> ~last.failedWarn
    /\ (last.ar.err \in PolicyRejections => ~last.success /\ last.failedWarn)
    /\ last.slowWarn <=> last.env.slow

\* C13 witness: a fast request rejected by a decorator, counted as a failure
\* and warned about as failed but not as slow.
C13_Witness ==
  /\ IsApply /\ last.ret = "ar"
  /\ last.ar.err \in PolicyRejections
  /\ ~last.env.slow /\ ~last.slowWarn
  /\ last.failedWarn /\ ~last.success

\* C14: for every data-plane or auth-plane request applied with shouldApplyV3
\* true, the response and the error of the result are the ones the active
\* chain returned for it; an alarm request returns the chain's error although
\* RestoreAlarms ran after the chain call.
C14_ResultIsChainResult ==
  (IsApply /\ last.gate /\ last.r.variant \in DataVariants \cup AuthVariants) =>
    /\ last.ret = "ar"
    /\ last.ar.resp = ChainCall(last.preChain, last.r, last.env, last.preStore).resp
    /\ last.ar.err = ChainCall(last.preChain, last.r, last.env, last.preStore).err

\* C14 witness: an alarm activation the chain failed is returned with that
\* error after RestoreAlarms ran.
C14_Witness ==
  /\ IsApply /\ last.gate /\ last.ret = "ar"
  /\ last.r.variant = "Alarm" /\ last.r.Action = "ACTIVATE"
  /\ last.restored
  /\ last.ar.err = ErrBackend
  /\ ChainCall(last.preChain, last.r, last.env, last.preStore).err = ErrBackend

\* C15: with a corruption alarm and an out-of-space alarm both active, a
\* mutating data-plane request applied with shouldApplyV3 true is rejected
\* with the corruption error and no applier below the corruption wrapper is
\* called.
C15_CorruptBeforeCapped ==
  (/\ IsApply /\ last.gate
   /\ last.r.variant \in CappedRejects
   /\ Active(last.preStore, "CORRUPT")
   /\ Active(last.preStore, "NOSPACE")) =>
    /\ last.ret = "ar"
    /\ last.ar.err = ErrCorrupt
    /\ last.ar.resp = RespNil
    /\ Len(last.calls) = 1
    /\ last.calls[1][1] = "Corrupt"
    /\ ~Reached("Capped") /\ ~Reached("Auth")
    /\ ~Reached("Quota") /\ ~Reached("Backend")

\* C15 witness: a Put applied under both alarms, rejected by the corruption
\* wrapper.
C15_Witness ==
  /\ IsApply /\ last.gate /\ last.r.variant = "Put"
  /\ Active(last.preStore, "CORRUPT")
  /\ Active(last.preStore, "NOSPACE")
  /\ last.ar.err = ErrCorrupt
  /\ last.calls = << <<"Corrupt", "Put">> >>

\* C16: while RestoreAlarms runs, the field a.applyV3 holds either the chain
\* the call found or the chain the call leaves, so that nobody reading the
\* field sees a chain without a wrapper the alarms require.
C16_AtomicReplace ==
  restorePc.at # "idle" =>
    applyV3 \in {last.preChain, RestoreAlarms(alarmStore, applyV3, applyV3base)}

\* How many wrappers named d the chain holds.
Count(chain, d) == Cardinality({i \in DOMAIN chain : chain[i] = d})

\* C17: the lockdown wrappers never pile up: the active chain holds at most
\* one capped applier and at most one corrupt applier, and what they wrap is
\* the base chain built at construction.
C17_NoAccumulation ==
  /\ Count(applyV3, "Capped") <= 1
  /\ Count(applyV3, "Corrupt") <= 1
  /\ applyV3base = newApplierV3
  /\ Len(applyV3) >= Len(applyV3base)
  /\ SubSeq(applyV3, Len(applyV3) - Len(applyV3base) + 1, Len(applyV3)) = applyV3base
  /\ Len(applyV3) = Len(applyV3base) + Count(applyV3, "Capped") + Count(applyV3, "Corrupt")

\* C17 witness: an alarm of a type already active is activated once more and
\* the chain still holds one wrapper for it.
C17_Witness ==
  /\ IsApply /\ last.gate /\ last.ret = "ar" /\ last.ar.err = ErrNil
  /\ last.r.variant = "Alarm" /\ last.r.Action = "ACTIVATE" /\ last.r.Alarm = "NOSPACE"
  /\ Active(last.preStore, "NOSPACE")
  /\ Count(last.preChain, "Capped") = 1
  /\ Count(applyV3, "Capped") = 1

\* The types of the alarms in the store.
ActiveKinds(store) == {t \in AlarmTypes : Active(store, t)}

\* The request that deactivates alarm al.
Deactivate(al) ==
  [variant |-> "Alarm", Action |-> "DEACTIVATE",
   MemberID |-> al.MemberID, Alarm |-> al.Alarm]

\* The uberApplier after Apply(r, true) when no collaborator fails.
AfterApply(a, r) ==
  [alarmStore |-> Apply(a, r, TRUE, NoEnv).store,
   applyV3 |-> Apply(a, r, TRUE, NoEnv).applyV3,
   applyV3base |-> a.applyV3base]

\* The uberApplier after a deactivate has been applied for every alarm of als.
RECURSIVE DeactivateAll(_, _)
DeactivateAll(a, als) ==
  IF als = {} THEN a
  ELSE DeactivateAll(AfterApply(a, Deactivate(CHOOSE al \in als : TRUE)),
                     als \ {CHOOSE al \in als : TRUE})

\* The chain is the base chain and no Put is rejected by a lockdown wrapper.
Lifted(a) ==
  /\ a.applyV3 = BaseChain
  /\ \A env \in EnvsFor(Request("Put"), TRUE) :
       Apply(a, Request("Put"), TRUE, env).ar.err \notin {ErrNoSpace, ErrCorrupt}

\* The appliers the last Apply called, outermost first.
Called == [i \in 1..Len(last.calls) |-> last.calls[i][1]]

C19_ClusterControlResult ==
  (IsApply /\ last.r.variant \in ClusterVariants) =>
    /\ last.ret = "ar"
    /\ last.ar.resp = RespNil
    /\ last.ar.err = ErrNil
    /\ last.observed
    /\ last.success
    /\ ~last.failedWarn
    /\ last.calls = <<>>

\* C19 witness: a cluster-control request applied with shouldApplyV3 false
\* while both lockdowns are in place returns the empty result as a success.
C19_Witness ==
  /\ IsApply /\ ~last.gate
  /\ last.r.variant = "DowngradeInfoSet"
  /\ last.preChain = <<"Corrupt", "Capped">> \o BaseChain
  /\ last.ret = "ar" /\ last.ar = EmptyResult
  /\ last.observed /\ last.success

====
